---- MODULE Spec2Model ----
(***************************************************************************)
(* tinyenv: validation and type conversion of environment variables        *)
(* against declared keys and defaults (src/src/index.ts).                  *)
(*                                                                         *)
(* JavaScript values are tagged records; JavaScript strings are sequences  *)
(* of one-character strings, so that trim, split, toLowerCase, Number and  *)
(* JSON.parse are computed character by character.  Error messages and    *)
(* property names are texts, built as the template literals build them.    *)
(***************************************************************************)
EXTENDS Integers, Sequences, FiniteSets, TLC

VARIABLES
    keys,         \* constructor argument: the declared keys, in order
    options,      \* constructor argument: defaults, validator, delimiter, arrayTypes
    entry,        \* "tinyenv" (default export) or "validate" (adapter called directly)
    value,        \* the input handed to the adapter's validate
    pc,           \* position in the call
    i,            \* index of the key the for-of loop is at
    env,          \* the record parseAndValidate accumulates (key -> value)
    parsedValue,  \* the converted value of the current key
    thrown,       \* the error in flight, or NoError
    result,       \* what the adapter's validate returned
    outcome,      \* what tinyenv did: returned a record or threw
    frozen,       \* whether Object.freeze was applied to env
    writes,       \* number of writes the caller attempted on the returned record
    log,          \* the per-key steps taken so far, in order
    aliased       \* the keys whose stored value is the very object defaults holds

vars == <<keys, options, entry, value, pc, i, env, parsedValue, thrown, result,
          outcome, frozen, writes, log, aliased>>

-----------------------------------------------------------------------------
(* Bounds of the model *)

MaxKeys == 2
MaxWrites == 2

-----------------------------------------------------------------------------
(* JavaScript values *)

Undef == [t |-> "undefined"]
Null == [t |-> "null"]
NaN == [t |-> "nan"]
Bool(b) == [t |-> "boolean", b |-> b]
Num(n) == [t |-> "number", n |-> n]
Str(s) == [t |-> "string", s |-> s]
Arr(a) == [t |-> "array", a |-> a]
\* an object: its own property names in insertion order, and their values
Obj(ks, o) == [t |-> "object", ks |-> ks, o |-> o]
EmptyObj == Obj(<<>>, <<>>)
Obj1(k, v) == Obj(<<k>>, [p \in {k} |-> v])
Obj2(k1, v1, k2, v2) == Obj(<<k1, k2>>, [p \in {k1, k2} |-> IF p = k1 THEN v1 ELSE v2])

\* the typeof operator
TypeOf(v) ==
    CASE v.t = "undefined" -> "undefined"
      [] v.t = "boolean" -> "boolean"
      [] v.t \in {"number", "nan"} -> "number"
      [] v.t = "string" -> "string"
      [] v.t = "function" -> "function"
      [] OTHER -> "object"

Range(s) == {s[n] : n \in DOMAIN s}

Digits == <<"0", "1", "2", "3", "4", "5", "6", "7", "8", "9">>
DigitSet == Range(Digits)
DigitValue(c) == (CHOOSE n \in DOMAIN Digits : Digits[n] = c) - 1

RECURSIVE NatToChars(_)
NatToChars(n) ==
    IF n < 10 THEN <<Digits[n + 1]>>
    ELSE NatToChars(n \div 10) \o <<Digits[(n % 10) + 1]>>

IntToChars(n) == IF n < 0 THEN <<"-">> \o NatToChars(-n) ELSE NatToChars(n)

\* own enumerable property names of an object-typed value, in for-in order
Props(v) ==
    CASE v.t = "object" -> v.ks
      [] v.t = "array" -> [n \in 1..Len(v.a) |-> NatToChars(n - 1)[1]]
      [] OTHER -> <<>>

\* the `in` operator on own properties
HasProp(v, p) == p \in Range(Props(v))

\* property read v[p]
Get(v, p) ==
    CASE v.t = "object" /\ p \in DOMAIN v.o -> v.o[p]
      [] v.t = "array" /\ HasProp(v, p) -> v.a[DigitValue(p) + 1]
      [] OTHER -> Undef

-----------------------------------------------------------------------------
(* String primitives *)

WhiteSpace == {" "}

RECURSIVE TrimStart(_)
TrimStart(s) ==
    IF s # <<>> /\ Head(s) \in WhiteSpace THEN TrimStart(Tail(s)) ELSE s

RECURSIVE TrimEnd(_)
TrimEnd(s) ==
    IF s # <<>> /\ s[Len(s)] \in WhiteSpace
    THEN TrimEnd(SubSeq(s, 1, Len(s) - 1)) ELSE s

\* String.prototype.trim
Trim(s) == TrimEnd(TrimStart(s))

LowerOf(c) ==
    CASE c = "T" -> "t" [] c = "R" -> "r" [] c = "U" -> "u" [] c = "E" -> "e"
      [] c = "F" -> "f" [] c = "A" -> "a" [] c = "L" -> "l" [] c = "S" -> "s"
      [] c = "Y" -> "y" [] c = "N" -> "n" [] c = "O" -> "o"
      [] OTHER -> c

\* String.prototype.toLowerCase
ToLowerCase(s) == [n \in DOMAIN s |-> LowerOf(s[n])]

StartsWith(s, d) == Len(d) <= Len(s) /\ SubSeq(s, 1, Len(d)) = d

\* String.prototype.split on a separator string: the parts between the
\* occurrences of d, scanning left to right; an empty separator splits
\* into single characters
RECURSIVE SplitFrom(_, _, _)
SplitFrom(s, d, cur) ==
    IF s = <<>> THEN <<cur>>
    ELSE IF StartsWith(s, d)
         THEN <<cur>> \o SplitFrom(SubSeq(s, Len(d) + 1, Len(s)), d, <<>>)
         ELSE SplitFrom(Tail(s), d, Append(cur, Head(s)))

Split(s, d) ==
    IF d = <<>> THEN [n \in DOMAIN s |-> <<s[n]>>]
    ELSE SplitFrom(s, d, <<>>)

RECURSIVE DigitsToNat(_, _)
DigitsToNat(s, acc) ==
    IF s = <<>> THEN acc ELSE DigitsToNat(Tail(s), acc * 10 + DigitValue(Head(s)))

AllDigits(s) == s # <<>> /\ \A n \in DOMAIN s : s[n] \in DigitSet

\* Number(string): surrounding white space ignored, the empty string is 0,
\* an optionally signed run of decimal digits is its value, anything else
\* is NaN (the model's alphabet has no '.', exponent or radix prefix)
StringToNumber(s) ==
    LET t == Trim(s) IN
    IF t = <<>> THEN Num(0)
    ELSE IF AllDigits(t) THEN Num(DigitsToNat(t, 0))
    ELSE IF Head(t) = "-" /\ AllDigits(Tail(t)) THEN Num(-DigitsToNat(Tail(t), 0))
    ELSE IF Head(t) = "+" /\ AllDigits(Tail(t)) THEN Num(DigitsToNat(Tail(t), 0))
    ELSE NaN

\* Number(value)
ToNumber(v) ==
    CASE v.t \in {"number", "nan"} -> v
      [] v.t = "string" -> StringToNumber(v.s)
      [] v.t = "boolean" -> Num(IF v.b THEN 1 ELSE 0)
      [] v.t = "null" -> Num(0)
      [] OTHER -> NaN

\* String(value); an array is its elements' strings joined by ",", with
\* null and undefined elements as the empty string
RECURSIVE ToStr(_)
RECURSIVE JoinValues(_, _)
JoinValues(a, n) ==
    IF n > Len(a) THEN <<>>
    ELSE (IF n > 1 THEN <<",">> ELSE <<>>)
         \o (IF a[n].t \in {"undefined", "null"} THEN <<>> ELSE ToStr(a[n]))
         \o JoinValues(a, n + 1)

ToStr(v) ==
    CASE v.t = "string" -> v.s
      [] v.t = "number" -> IntToChars(v.n)
      [] v.t = "nan" -> <<"N", "a", "N">>
      [] v.t = "boolean" -> IF v.b THEN <<"t", "r", "u", "e">> ELSE <<"f", "a", "l", "s", "e">>
      [] v.t = "undefined" -> <<"u", "n", "d", "e", "f", "i", "n", "e", "d">>
      [] v.t = "null" -> <<"n", "u", "l", "l">>
      [] v.t = "array" -> JoinValues(v.a, 1)
      [] OTHER -> <<"[", "o", "b", "j", "e", "c", "t", " ", "O", "b", "j", "e", "c", "t", "]">>

-----------------------------------------------------------------------------
(* JSON.parse *)

\* a sequence of characters as one piece of text
RECURSIVE Cat(_)
Cat(s) == IF s = <<>> THEN "" ELSE Head(s) \o Cat(Tail(s))

ParseFail == [ok |-> FALSE]
Parsed(v, rest) == [ok |-> TRUE, v |-> v, rest |-> rest]

\* index of the first occurrence of character c in s, 0 when there is none
IndexOf(s, c) ==
    IF c \in Range(s) THEN CHOOSE n \in DOMAIN s : s[n] = c /\ \A m \in 1..(n - 1) : s[m] # c
    ELSE 0

\* length of the longest prefix of s made of digits
DigitRun(s) ==
    IF \A n \in DOMAIN s : s[n] \in DigitSet THEN Len(s)
    ELSE (CHOOSE n \in DOMAIN s : s[n] \notin DigitSet /\ \A m \in 1..(n - 1) : s[m] \in DigitSet) - 1

\* a JSON string, after its opening quote (the alphabet has no escapes)
ParseString(s) ==
    LET q == IndexOf(s, "\"") IN
    IF q = 0 THEN ParseFail
    ELSE Parsed(Str(SubSeq(s, 1, q - 1)), SubSeq(s, q + 1, Len(s)))

\* a JSON number: an optional minus, then 0 or a digit run without a leading 0
ParseNumber(s) ==
    LET neg == s # <<>> /\ Head(s) = "-"
        body == IF neg THEN Tail(s) ELSE s
        n == DigitRun(body)
    IN  IF n = 0 \/ (n > 1 /\ Head(body) = "0") THEN ParseFail
        ELSE LET m == DigitsToNat(SubSeq(body, 1, n), 0)
             IN  Parsed(Num(IF neg THEN -m ELSE m), SubSeq(body, n + 1, Len(body)))

ParseLiteral(s, word, v) ==
    IF StartsWith(s, word) THEN Parsed(v, SubSeq(s, Len(word) + 1, Len(s))) ELSE ParseFail

\* a property set on an object: a new name is appended, a repeated name
\* keeps its place and takes the new value
SetProp(obj, k, v) ==
    Obj(IF k \in Range(obj.ks) THEN obj.ks ELSE Append(obj.ks, k),
        [p \in DOMAIN obj.o \cup {k} |-> IF p = k THEN v ELSE obj.o[p]])

RECURSIVE ParseValue(_)
RECURSIVE ParseMembers(_, _)
RECURSIVE ParseElements(_, _)

\* the members of an object after "{" or ","
ParseMembers(s, obj) ==
    LET t == TrimStart(s) IN
    IF t = <<>> \/ Head(t) # "\"" THEN ParseFail
    ELSE LET k == ParseString(Tail(t)) IN
         IF ~k.ok THEN ParseFail
         ELSE LET c == TrimStart(k.rest) IN
              IF c = <<>> \/ Head(c) # ":" THEN ParseFail
              ELSE LET v == ParseValue(Tail(c)) IN
                   IF ~v.ok THEN ParseFail
                   ELSE LET r == TrimStart(v.rest)
                            next == SetProp(obj, Cat(k.v.s), v.v)
                        IN  IF r = <<>> THEN ParseFail
                            ELSE IF Head(r) = "}" THEN Parsed(next, Tail(r))
                            ELSE IF Head(r) = "," THEN ParseMembers(Tail(r), next)
                            ELSE ParseFail

\* the elements of an array after "[" or ","
ParseElements(s, acc) ==
    LET v == ParseValue(s) IN
    IF ~v.ok THEN ParseFail
    ELSE LET r == TrimStart(v.rest) IN
         IF r = <<>> THEN ParseFail
         ELSE IF Head(r) = "]" THEN Parsed(Arr(Append(acc, v.v)), Tail(r))
         ELSE IF Head(r) = "," THEN ParseElements(Tail(r), Append(acc, v.v))
         ELSE ParseFail

ParseValue(s) ==
    LET t == TrimStart(s) IN
    IF t = <<>> THEN ParseFail
    ELSE LET c == Head(t) IN
         CASE c = "{" ->
                LET r == TrimStart(Tail(t)) IN
                IF r # <<>> /\ Head(r) = "}" THEN Parsed(EmptyObj, Tail(r))
                ELSE ParseMembers(Tail(t), EmptyObj)
           [] c = "[" ->
                LET r == TrimStart(Tail(t)) IN
                IF r # <<>> /\ Head(r) = "]" THEN Parsed(Arr(<<>>), Tail(r))
                ELSE ParseElements(Tail(t), <<>>)
           [] c = "\"" -> ParseString(Tail(t))
           [] c = "-" \/ c \in DigitSet -> ParseNumber(t)
           [] c = "t" -> ParseLiteral(t, <<"t", "r", "u", "e">>, Bool(TRUE))
           [] c = "f" -> ParseLiteral(t, <<"f", "a", "l", "s", "e">>, Bool(FALSE))
           [] c = "n" -> ParseLiteral(t, <<"n", "u", "l", "l">>, Null)
           [] OTHER -> ParseFail

\* JSON.parse(text): one value, nothing but white space after it; a
\* malformed document throws a SyntaxError
JsonParse(s) ==
    LET v == ParseValue(s) IN
    IF v.ok /\ TrimStart(v.rest) = <<>> THEN [ok |-> TRUE, v |-> v.v] ELSE ParseFail

-----------------------------------------------------------------------------
(* Errors *)

NoError == [t |-> "none"]
Error(message) == [t |-> "error", name |-> "Error", message |-> message]
TypeError(message) == [t |-> "error", name |-> "TypeError", message |-> message]
Ok(v) == [ok |-> TRUE, v |-> v]
Throw(e) == [ok |-> FALSE, err |-> e]

\* the text of the SyntaxError JSON.parse throws (engine-defined)
SyntaxErrorMessage == "Unexpected token"

-----------------------------------------------------------------------------
(* convertToType *)

TrueWords == {<<"t", "r", "u", "e">>, <<"1">>, <<"y", "e", "s">>}
FalseWords == {<<"f", "a", "l", "s", "e">>, <<"0">>, <<"n", "o">>}

ConvertToType(el, type, key) ==
    CASE type = "number" ->
            LET num == StringToNumber(el) IN
            IF num = NaN
            THEN Throw(TypeError("Failed to parse " \o key \o " array element as number: " \o Cat(el)))
            ELSE Ok(num)
      [] type = "boolean" ->
            LET str == ToLowerCase(el) IN
            IF str \in TrueWords THEN Ok(Bool(TRUE))
            ELSE IF str \in FalseWords THEN Ok(Bool(FALSE))
            ELSE Throw(Error("Failed to parse " \o key \o " array element as boolean: " \o Cat(el)))
      [] OTHER -> Ok(Str(el))

\* elements.map((el) => convertToType(el, type, key)): the converted
\* elements, or the error of the first element that throws
RECURSIVE MapConvert(_, _, _, _)
MapConvert(elements, type, key, acc) ==
    IF elements = <<>> THEN Ok(Arr(acc))
    ELSE LET r == ConvertToType(Head(elements), type, key) IN
         IF r.ok THEN MapConvert(Tail(elements), type, key, Append(acc, r.v)) ELSE r

-----------------------------------------------------------------------------
(* validateObjectShape *)

RECURSIVE JoinDot(_)
JoinDot(path) ==
    IF Len(path) = 1 THEN path[1] ELSE path[1] \o "." \o JoinDot(Tail(path))

\* ${key}${path.length > 0 ? '.' + path.join('.') : ''}
PathText(key, path) == key \o (IF Len(path) > 0 THEN "." \o JoinDot(path) ELSE "")

\* (mutant) the properties of the default are looked for in the value, and
\* their values are not compared
ShapePropsShallow(v, d, key, path, n) ==
    LET missing == {m \in n..Len(Props(d)) :
                        ~HasProp(v, Props(d)[m]) /\ Get(d, Props(d)[m]) # Undef}
    IN  IF missing = {} THEN Ok(Undef)
        ELSE Throw(Error("Missing required property " \o PathText(key, path) \o "."
                         \o Props(d)[CHOOSE m \in missing : \A l \in missing : m <= l]))

RECURSIVE ValidateObjectShape(_, _, _, _)
RECURSIVE ShapeProps(_, _, _, _, _)

\* the for-in loop over the default's properties, from the n-th on
ShapeProps(v, d, key, path, n) ==
    IF n > Len(Props(d)) THEN Ok(Undef)
    ELSE LET prop == Props(d)[n] IN
         IF ~HasProp(v, prop) /\ Get(d, prop) # Undef
         THEN Throw(Error("Missing required property " \o PathText(key, path) \o "." \o prop))
         ELSE LET r == IF HasProp(v, prop)
                       THEN ValidateObjectShape(Get(v, prop), Get(d, prop), key, Append(path, prop))
                       ELSE Ok(Undef)
              IN  IF r.ok THEN ShapeProps(v, d, key, path, n + 1) ELSE r

\* (mutant) an array is compared by its typeof alone
ValidateObjectShapeArraysByType(v, d, key, path) ==
    IF TypeOf(v) # TypeOf(d)
    THEN Throw(TypeError("Invalid type for " \o PathText(key, path) \o ": expected "
                         \o TypeOf(d) \o ", got " \o TypeOf(v)))
    ELSE IF TypeOf(v) = "object" /\ v # Null /\ d.t # "array"
    THEN ShapeProps(v, d, key, path, 1)
    ELSE Ok(Undef)

ValidateObjectShape(v, d, key, path) ==
    IF TypeOf(v) # TypeOf(d)
    THEN Throw(TypeError("Invalid type for " \o PathText(key, path) \o ": expected "
                         \o TypeOf(d) \o ", got " \o TypeOf(v)))
    ELSE IF TypeOf(v) = "object" /\ v # Null
    THEN ShapeProps(v, d, key, path, 1)
    ELSE Ok(Undef)

-----------------------------------------------------------------------------
(* TinyEnvSchema.parseAndValidate: the steps of one key *)

\* envVars[key]
RawValue(key) ==
    IF value.t = "object" /\ key \in DOMAIN value.o THEN value.o[key] ELSE Undef

\* typeof rawValue === 'string' && rawValue.trim() === ''
IsEmpty(raw) == raw.t = "string" /\ Trim(raw.s) = <<>>

\* key in (this.options?.defaults ?? {})
InDefaults(key) == options.defaults.t = "object" /\ key \in DOMAIN options.defaults.o

\* this.options?.defaults?.[key]
DefaultValue(key) == IF InDefaults(key) THEN options.defaults.o[key] ELSE Undef

\* this.options?.arrayTypes?.[key]; "" stands for undefined (both falsy)
ArrayTypeOf(key) ==
    IF key \in DOMAIN options.arrayTypes THEN options.arrayTypes[key] ELSE ""

\* this.options?.delimiter ?? ','
Delimiter == IF options.delimiter.t = "undefined" THEN <<",">> ELSE options.delimiter.s

\* (mutant) the loop runs over the keys from the last to the first
KeyAtReversed(n) == keys[Len(keys) + 1 - n]

\* the key the for-of loop visits n-th
KeyAt(n) == keys[n]

\* (mutant) the undefined default is looked at only when the variable is
\* not set
InvalidDefaultIfUnset(key) ==
    /\ DefaultValue(key) = Undef /\ InDefaults(key)
    /\ (RawValue(key) = Undef \/ IsEmpty(RawValue(key)))

\* (mutant) the undefined default is never looked at
InvalidDefaultNever(key) == FALSE

\* the guard of the undefined-default check
InvalidDefault(key) == DefaultValue(key) = Undef /\ InDefaults(key)

InvalidDefaultError(key) ==
    Error("Invalid default value for key " \o key \o ": undefined is not allowed")

\* the guard of the missing-variable check
MissingVariable(key) ==
    (RawValue(key) = Undef \/ IsEmpty(RawValue(key))) /\ DefaultValue(key) = Undef

MissingVariableError(key) == Error("Missing environment variable: " \o key)

\* isEmpty || rawValue === undefined ? defaultValue : rawValue
SelectValue(key) ==
    IF IsEmpty(RawValue(key)) \/ RawValue(key) = Undef THEN DefaultValue(key)
    ELSE RawValue(key)

\* (mutant) the selected value is checked to be numeric and kept as it is
ConvertNumberKeepsValue(key, v) ==
    IF ToNumber(v) = NaN
    THEN Throw(TypeError("Failed to parse " \o key \o " as number: " \o Cat(ToStr(v))))
    ELSE Ok(v)

\* case 'number'
ConvertNumber(key, v) ==
    LET num == ToNumber(v) IN
    IF num = NaN
    THEN Throw(TypeError("Failed to parse " \o key \o " as number: " \o Cat(ToStr(v))))
    ELSE Ok(num)

\* (mutant) the string is compared as written, without lower-casing
ConvertBooleanCaseSensitive(key, v) ==
    LET str == ToStr(v) IN
    IF str \in TrueWords THEN Ok(Bool(TRUE))
    ELSE IF str \in FalseWords THEN Ok(Bool(FALSE))
    ELSE Throw(Error("Failed to parse " \o key \o " as boolean: " \o Cat(ToStr(v))))

\* case 'boolean'
ConvertBoolean(key, v) ==
    LET str == ToLowerCase(ToStr(v)) IN
    IF str \in TrueWords THEN Ok(Bool(TRUE))
    ELSE IF str \in FalseWords THEN Ok(Bool(FALSE))
    ELSE Throw(Error("Failed to parse " \o key \o " as boolean: " \o Cat(ToStr(v))))

\* (mutant) the elements are not trimmed
ElementsUntrimmed(str, delimiter) ==
    SelectSeq(Split(str, delimiter), LAMBDA el : el # <<>>)

\* String(value).split(delimiter).map((el) => el.trim()).filter((el) => el !== '')
Elements(str, delimiter) ==
    LET parts == Split(str, delimiter)
        trimmed == [n \in DOMAIN parts |-> Trim(parts[n])]
    IN  SelectSeq(trimmed, LAMBDA el : el # <<>>)

\* the element type the array branch converts with; "" leaves the strings
ElementType(key, defaultValue) ==
    IF ArrayTypeOf(key) # "" THEN ArrayTypeOf(key)
    ELSE IF Len(defaultValue.a) > 0 THEN TypeOf(defaultValue.a[1])
    ELSE ""

\* case 'object', Array.isArray(defaultValue)
ConvertArray(key, v, defaultValue) ==
    MapConvert(Elements(ToStr(v), Delimiter), ElementType(key, defaultValue), key, <<>>)

\* the catch clause of the object branch
JsonCatch(key, e) == Throw(Error("Failed to parse " \o key \o " as JSON: " \o e.message))

\* case 'object', other objects: JSON.parse, then validateObjectShape; an
\* error of either is caught and thrown again
ConvertObject(key, v, defaultValue) ==
    LET parsed == JsonParse(ToStr(v)) IN
    IF ~parsed.ok THEN JsonCatch(key, [t |-> "error", name |-> "SyntaxError", message |-> SyntaxErrorMessage])
    ELSE LET shape == ValidateObjectShape(parsed.v, defaultValue, key, <<>>) IN
         IF shape.ok THEN Ok(parsed.v) ELSE JsonCatch(key, shape.err)

\* value selection and type dispatch for one key
ConvertValue(key) ==
    LET defaultValue == DefaultValue(key)
        v == SelectValue(key)
    IN  IF defaultValue = Undef THEN Ok(Str(ToStr(v)))
        ELSE CASE TypeOf(defaultValue) = "number" -> ConvertNumber(key, v)
               [] TypeOf(defaultValue) = "boolean" -> ConvertBoolean(key, v)
               [] TypeOf(defaultValue) = "object" ->
                    IF defaultValue.t = "array" THEN ConvertArray(key, v, defaultValue)
                    ELSE ConvertObject(key, v, defaultValue)
               [] OTHER -> Ok(Str(ToStr(v)))

\* (mutant) an unset variable takes the default value itself
ValueOriginKeepsDefault(key) ==
    IF IsEmpty(RawValue(key)) \/ RawValue(key) = Undef THEN "defaultValue" ELSE "new"

\* where the object stored for key comes from: the expression that makes
\* parsedValue in the branch the key takes.  Every branch makes a new value
\* (a primitive, or a new array or object); none assigns defaultValue itself
ValueOrigin(key) ==
    LET defaultValue == DefaultValue(key) IN
    IF defaultValue = Undef THEN "String(value)"
    ELSE CASE TypeOf(defaultValue) = "number" -> "Number(value)"
           [] TypeOf(defaultValue) = "boolean" -> "true / false"
           [] TypeOf(defaultValue) = "object" ->
                IF defaultValue.t = "array"
                THEN (IF ElementType(key, defaultValue) = "" THEN "filter(...)" ELSE "map(...)")
                ELSE "JSON.parse(...)"
           [] OTHER -> "String(value)"

\* what the supplied validator does when called for key: "return", "promise"
\* (an async validator: it returns a promise, here one that rejects later),
\* "throwError" (throws an Error) or "throwValue" (throws a string)
ValidatorBehaviour(key) == options.validator.f[key]

ValidatorMessage(key) == "invalid " \o key
ThrownValue == <<"b", "a", "d">>

\* (mutant) what the validator throws is swallowed
ValidatorOutcomeSwallowed(key) == Ok(Undef)

\* the try/catch around the validator call: an Error is thrown on as it
\* is, anything else is wrapped
ValidatorOutcome(key) ==
    CASE ValidatorBehaviour(key) = "throwError" -> Throw(Error(ValidatorMessage(key)))
      [] ValidatorBehaviour(key) = "throwValue" ->
            Throw(Error("Validation failed for " \o key \o ": " \o Cat(ThrownValue)))
      [] OTHER -> Ok(Undef)

\* one pass of the loop body for key, as a function: the value stored for
\* the key, or the error the pass throws
ProcessKey(key) ==
    IF InvalidDefault(key) THEN Throw(InvalidDefaultError(key))
    ELSE IF MissingVariable(key) THEN Throw(MissingVariableError(key))
    ELSE LET c == ConvertValue(key) IN
         IF ~c.ok \/ options.validator = Undef THEN c
         ELSE LET r == ValidatorOutcome(key) IN IF r.ok THEN c ELSE r

\* env[key] = parsedValue
SetKey(rec, key, v) == [k \in DOMAIN rec \cup {key} |-> IF k = key THEN v ELSE rec[k]]

\* where the loop goes with index n
LoopPc(n) == IF n > Len(keys) THEN "freeze" ELSE "checkDefault"

\* (mutant) the record is returned as it is
NoFreeze(rec) == FALSE

\* Object.freeze(env)
Freeze(rec) == TRUE

\* the object the adapter's validate returns: on success its value is the
\* env record itself (the variable env); on a caught error one issue
ValueResult == [fields |-> {"value"}, issues |-> <<>>]
CatchResult(e) ==
    [fields |-> {"issues"},
     issues |-> << [message |-> IF e.t = "error" THEN e.message ELSE Cat(ToStr(e))] >>]
NoResult == [fields |-> {}, issues |-> <<>>]

NoOutcome == [t |-> "none"]

\* result instanceof Promise: validate builds its result synchronously, an
\* object with value or with issues, which is never a promise
IsPromise(res) == "then" \in res.fields

\* (mutant) tinyenv returns result.value without looking at the issues
TinyenvIgnoresIssues(res) == [t |-> "returned"]

\* tinyenv, after validate returned: throw the first issue's message, or
\* return result.value
TinyenvOutcome(res) ==
    IF IsPromise(res)
    THEN [t |-> "threw", error |-> TypeError("Async validation is not supported")]
    ELSE IF "issues" \in res.fields /\ res.issues # <<>>
    THEN [t |-> "threw", error |-> Error(res.issues[1].message)]
    ELSE [t |-> "returned"]

-----------------------------------------------------------------------------
(* Actions *)

Ev(op, key) == [op |-> op, key |-> key]

\* the adapter's validate is entered (by tinyenv with process.env, or by a
\* direct caller with any input); parseAndValidate checks the input and
\* starts the loop with an empty record
Validate ==
    /\ pc = "start"
    /\ IF TypeOf(value) # "object" \/ value = Null
       THEN /\ thrown' = Error("Input must be an object")
            /\ pc' = "catch"
            /\ UNCHANGED <<i, env>>
       ELSE /\ env' = <<>>
            /\ i' = 1
            /\ pc' = LoopPc(1)
            /\ UNCHANGED thrown
    /\ UNCHANGED <<aliased, keys, options, entry, value, parsedValue, result, outcome, frozen,
                   writes, log>>

\* "Check for undefined defaults first"
CheckDefault ==
    /\ pc = "checkDefault"
    /\ log' = Append(log, Ev("checkDefault", KeyAt(i)))
    /\ IF InvalidDefault(KeyAt(i))
       THEN /\ thrown' = InvalidDefaultError(KeyAt(i))
            /\ pc' = "catch"
       ELSE /\ pc' = "checkMissing"
            /\ UNCHANGED thrown
    /\ UNCHANGED <<aliased, keys, options, entry, value, i, env, parsedValue, result, outcome,
                   frozen, writes>>

\* "If neither a non-empty env var nor a default exists, throw an error"
CheckMissing ==
    /\ pc = "checkMissing"
    /\ log' = Append(log, Ev("checkMissing", KeyAt(i)))
    /\ IF MissingVariable(KeyAt(i))
       THEN /\ thrown' = MissingVariableError(KeyAt(i))
            /\ pc' = "catch"
       ELSE /\ pc' = "convert"
            /\ UNCHANGED thrown
    /\ UNCHANGED <<aliased, keys, options, entry, value, i, env, parsedValue, result, outcome,
                   frozen, writes>>

\* value selection and the type switch
Convert ==
    /\ pc = "convert"
    /\ log' = Append(log, Ev("convert", KeyAt(i)))
    /\ LET r == ConvertValue(KeyAt(i)) IN
       IF r.ok
       THEN /\ parsedValue' = r.v
            /\ pc' = "validator"
            /\ UNCHANGED thrown
       ELSE /\ thrown' = r.err
            /\ pc' = "catch"
            /\ UNCHANGED parsedValue
    /\ UNCHANGED <<aliased, keys, options, entry, value, i, env, result, outcome, frozen, writes>>

\* "Run the optional validator"
RunValidator ==
    /\ pc = "validator"
    /\ IF options.validator = Undef
       THEN /\ pc' = "store"
            /\ UNCHANGED <<thrown, log>>
       ELSE /\ log' = Append(log, [op |-> "validator", key |-> KeyAt(i),
                                   arg |-> parsedValue, did |-> ValidatorBehaviour(KeyAt(i))])
            /\ LET r == ValidatorOutcome(KeyAt(i)) IN
               IF r.ok
               THEN pc' = "store" /\ UNCHANGED thrown
               ELSE pc' = "catch" /\ thrown' = r.err
    /\ UNCHANGED <<aliased, keys, options, entry, value, i, env, parsedValue, result, outcome,
                   frozen, writes>>

\* env[key] = parsedValue, and on to the next key
Store ==
    /\ pc = "store"
    /\ env' = SetKey(env, KeyAt(i), parsedValue)
    /\ aliased' = IF ValueOrigin(KeyAt(i)) = "defaultValue" THEN aliased \cup {KeyAt(i)}
                  ELSE aliased \ {KeyAt(i)}
    /\ log' = Append(log, Ev("store", KeyAt(i)))
    /\ i' = i + 1
    /\ pc' = LoopPc(i + 1)
    /\ UNCHANGED <<keys, options, entry, value, parsedValue, thrown, result, outcome,
                   frozen, writes>>

\* return Object.freeze(env); validate wraps it as { value: result }
Return ==
    /\ pc = "freeze"
    /\ frozen' = Freeze(env)
    /\ result' = ValueResult
    /\ pc' = "validated"
    /\ UNCHANGED <<aliased, keys, options, entry, value, i, env, parsedValue, thrown, outcome,
                   writes, log>>

\* validate's catch clause: the error becomes the one issue
Catch ==
    /\ pc = "catch"
    /\ result' = CatchResult(thrown)
    /\ thrown' = NoError
    /\ pc' = "validated"
    /\ UNCHANGED <<aliased, keys, options, entry, value, i, env, parsedValue, outcome, frozen,
                   writes, log>>

\* tinyenv after validate returned (validate is synchronous: its result is
\* never a Promise)
Tinyenv ==
    /\ pc = "validated"
    /\ entry = "tinyenv"
    /\ outcome' = TinyenvOutcome(result)
    /\ pc' = "done"
    /\ UNCHANGED <<aliased, keys, options, entry, value, i, env, parsedValue, thrown, result,
                   frozen, writes, log>>

\* the call is over
Finished == pc = "done" \/ (pc = "validated" /\ entry = "validate")

\* the caller holds a record: tinyenv returned it, or validate's result has it
HasRecord ==
    /\ Finished
    /\ IF entry = "tinyenv" THEN outcome.t = "returned" ELSE "value" \in result.fields

WriteKeys == {"A", "Z"}
Written == Str(<<"w">>)

\* what a write does to a record: an assignment, or a delete
Assign(rec, key, v) == SetKey(rec, key, v)
Delete(rec, key) == [k \in DOMAIN rec \ {key} |-> rec[k]]

\* the caller writes to the record it was given: a write to a frozen object
\* fails (a TypeError in strict code, ignored otherwise)
Write ==
    /\ HasRecord
    /\ writes < MaxWrites
    /\ writes' = writes + 1
    /\ \E key \in WriteKeys, del \in BOOLEAN :
          env' = IF frozen THEN env
                 ELSE IF del THEN Delete(env, key) ELSE Assign(env, key, Written)
    /\ UNCHANGED <<aliased, keys, options, entry, value, pc, i, parsedValue, thrown, result,
                   outcome, frozen, log>>

\* a change made in place to an array or an object
Mutated(v) ==
    IF v.t = "array" THEN Arr(Append(v.a, Written)) ELSE SetProp(v, "w", Written)

\* the caller changes, in place, an array or object held in the record (the
\* freeze is shallow); an object that defaults holds too changes there too
NestedWrite ==
    /\ HasRecord
    /\ writes < MaxWrites
    /\ writes' = writes + 1
    /\ \E key \in DOMAIN env :
          /\ env[key].t \in {"array", "object"}
          /\ options' = IF key \in aliased
                        THEN [options EXCEPT !.defaults.o[key] = Mutated(@)]
                        ELSE options
    /\ UNCHANGED <<aliased, keys, entry, value, pc, i, env, parsedValue, thrown, result,
                   outcome, frozen, log>>

Next ==
    \/ NestedWrite
    \/ Validate
    \/ CheckDefault
    \/ CheckMissing
    \/ Convert
    \/ RunValidator
    \/ Store
    \/ Return
    \/ Catch
    \/ Tinyenv
    \/ Write

-----------------------------------------------------------------------------
(* Inputs: the configurations a call is made with *)

KeyNames == <<"A", "B", "C", "D">>

\* one declared key's part of a configuration: its raw value in the input
\* (Undef when the variable is not set), whether defaults lists the key and
\* with what value, and its arrayTypes entry ("" when it has none)
Sc(raw, has, d, at) == [raw |-> raw, has |-> has, d |-> d, at |-> at]
NoDefault(raw) == Sc(raw, FALSE, Undef, "")
WithDefault(raw, d) == Sc(raw, TRUE, d, "")

\* raw values of the calls with several keys
PlainRaws ==
    {Undef,
     Str(<<" ">>),
     Str(<<"8">>),
     Str(<<"x">>)}

\* defaults of the calls with several keys
PlainDefaults ==
    {Num(3),
     Obj1("a", Num(1))}

PlainPool ==
    {NoDefault(r) : r \in PlainRaws}
    \cup {WithDefault(r, Undef) : r \in PlainRaws}
    \cup {WithDefault(r, d) : r \in PlainRaws, d \in PlainDefaults}

\* raw values for boolean defaults
BoolRaws ==
    {Undef,
     Str(<<"t", "r", "u", "e">>),
     Str(<<"T", "R", "U", "E">>),
     Str(<<"T", "r", "u", "e">>),
     Str(<<"t", "R", "u", "E">>),
     Str(<<"1">>),
     Str(<<"y", "e", "s">>),
     Str(<<"Y", "E", "S">>),
     Str(<<"Y", "e", "s">>),
     Str(<<"f", "a", "l", "s", "e">>),
     Str(<<"F", "A", "L", "S", "E">>),
     Str(<<"F", "a", "l", "s", "e">>),
     Str(<<"0">>),
     Str(<<"n", "o">>),
     Str(<<"N", "O">>),
     Str(<<"N", "o">>),
     Str(<<" ", "t", "r", "u", "e">>),
     Str(<<"t", "r", "u", "e", " ">>),
     Str(<<"y", "e", "s", " ">>),
     Str(<<"2">>),
     Str(<<"y">>),
     Str(<<"n">>),
     Str(<<"o", "n">>),
     Str(<<"o", "f", "f">>),
     Str(<<"t", "r", "u">>),
     Str(<<"t", "r", "u", "e", "e">>),
     Str(<<"n", "o", "p", "e">>),
     Str(<<"0", "1">>),
     Str(<<>>),
     Str(<<" ", " ">>)}

\* raw values for number defaults
NumRaws ==
    {Undef,
     Str(<<"4", "2">>),
     Str(<<" ", "7", " ">>),
     Str(<<"-", "3">>),
     Str(<<"+", "5">>),
     Str(<<"0", "0", "7">>),
     Str(<<"0">>),
     Str(<<"x">>),
     Str(<<"4", "x">>),
     Str(<<"1", ",", "2">>),
     Str(<<"-", " ", "1">>),
     Str(<<>>),
     Str(<<" ">>)}

\* raw values for array defaults
ArrRaws ==
    {Undef,
     Str(<<"a", ",", "b">>),
     Str(<<"a", ",", " ", "b", " ", ",", "c">>),
     Str(<<" ", "a", " ", ",", " ", "b", " ">>),
     Str(<<"a", ",", ",", "b">>),
     Str(<<",">>),
     Str(<<"a">>),
     Str(<<"1", ",", "2", ",", "3">>),
     Str(<<"1", ",", "x", ",", "3">>),
     Str(<<"1", ",", " ", ",", "2">>),
     Str(<<"x", ",", "2", ",", "y">>),
     Str(<<"1", ";", "2">>),
     Str(<<"a", ";", "b", ",", "c">>),
     Str(<<"a", ";", " ", ";", "b">>),
     Str(<<"t", "r", "u", "e", ",", "0", ",", "Y", "E", "S">>),
     Str(<<"t", "r", "u", "e", ",", "m", "a", "y", "b", "e", ",", "n", "o", ",", "w", "h", "a", "t">>),
     Str(<<"a", ":", ":", "b">>),
     Str(<<"1", ":", ":", "x", ":", ":", "y">>),
     Str(<<" ">>)}

\* array defaults
ArrDefaults ==
    {Arr(<<>>),
     Arr(<<Str(<<"s">>)>>),
     Arr(<<Str(<<"a">>), Str(<<"b">>)>>),
     Arr(<<Num(0)>>),
     Arr(<<Num(1), Num(2)>>),
     Arr(<<Bool(TRUE)>>),
     Arr(<<EmptyObj>>),
     Arr(<<Str(<<" ", "s">>)>>)}

ArrayTypes == {"", "string", "number", "boolean"}

\* the delimiter option: not given, or a separator
Delimiters ==
    {Undef,
     Str(<<";">>),
     Str(<<":", ":">>),
     Str(<<>>)}

\* raw values for object defaults: JSON documents, well-formed and not
JsonRaws ==
    {Undef,
     Str(<<"{", "}">>),
     Str(<<"{", "\"", "a", "\"", ":", "1", "}">>),
     Str(<<"{", "\"", "a", "\"", ":", "\"", "x", "\"", "}">>),
     Str(<<"{", "\"", "a", "\"", ":", "1", ",", "\"", "z", "\"", ":", "2", "}">>),
     Str(<<"{", "\"", "z", "\"", ":", "2", "}">>),
     Str(<<"{", "\"", "a", "\"", ":", "n", "u", "l", "l", "}">>),
     Str(<<"{", "\"", "a", "\"", ":", "{", "}", "}">>),
     Str(<<"{", "\"", "a", "\"", ":", "[", "]", "}">>),
     Str(<<"{", "\"", "a", "\"", ":", "[", "1", "]", "}">>),
     Str(<<"{", "\"", "a", "\"", ":", "[", "1", ",", "2", "]", "}">>),
     Str(<<"{", "\"", "a", "\"", ":", "[", "\"", "x", "\"", "]", "}">>),
     Str(<<"{", "\"", "a", "\"", ":", "{", "\"", "0", "\"", ":", "1", "}", "}">>),
     Str(<<"{", "\"", "d", "b", "\"", ":", "{", "\"", "h", "\"", ":", "\"", "x", "\"", ",", "\"", "p", "\"", ":", "5", "}", "}">>),
     Str(<<"{", "\"", "d", "b", "\"", ":", "{", "\"", "h", "\"", ":", "\"", "x", "\"", "}", "}">>),
     Str(<<"{", "\"", "d", "b", "\"", ":", "{", "\"", "h", "\"", ":", "\"", "x", "\"", ",", "\"", "p", "\"", ":", "\"", "5", "\"", "}", "}">>),
     Str(<<"{", "\"", "d", "b", "\"", ":", "{", "\"", "p", "\"", ":", "5", ",", "\"", "h", "\"", ":", "\"", "x", "\"", ",", "\"", "q", "\"", ":", "t", "r", "u", "e", "}", "}">>),
     Str(<<"{", "\"", "d", "b", "\"", ":", "1", "}">>),
     Str(<<"{", "\"", "d", "b", "\"", ":", "n", "u", "l", "l", "}">>),
     Str(<<" ", "{", " ", "\"", "a", "\"", " ", ":", " ", "1", " ", "}", " ">>),
     Str(<<"n", "u", "l", "l">>),
     Str(<<"[", "1", "]">>),
     Str(<<"[", "]">>),
     Str(<<"1">>),
     Str(<<"\"", "x", "\"">>),
     Str(<<"t", "r", "u", "e">>),
     Str(<<"{">>),
     Str(<<"{", "\"", "a", "\"", ":", "}">>),
     Str(<<"{", "\"", "a", "\"", ":", "1", ",", "}">>),
     Str(<<"b", "a", "d">>),
     Str(<<"{", "\"", "a", "\"", ":", "1", "}", "x">>),
     Str(<<"{", "a", ":", "1", "}">>),
     Str(<<"[", "1">>),
     Str(<<"0", "1">>),
     Str(<<" ">>)}

\* object defaults (null is object-typed and not an array)
ObjDefaults ==
    {EmptyObj,
     Obj1("a", Num(1)),
     Obj1("a", Undef),
     Obj2("a", Num(1), "b", Undef),
     Obj1("a", Null),
     Obj1("a", Arr(<<Num(1)>>)),
     Obj1("a", Arr(<<>>)),
     Obj1("a", EmptyObj),
     Obj1("db", Obj2("h", Str(<<>>), "p", Num(0))),
     Null}

\* string defaults
StrDefaults ==
    {Str(<<"d">>),
     Str(<<>>),
     Str(<<" ", "d", " ">>)}

\* the configurations of a call with one key
RichPool ==
    {WithDefault(r, Bool(b)) : r \in BoolRaws, b \in BOOLEAN}
    \cup {WithDefault(r, d) : r \in NumRaws, d \in {Num(3), Num(-12), NaN}}
    \cup {WithDefault(r, d) : r \in PlainRaws, d \in StrDefaults}
    \cup {Sc(r, TRUE, d, at) : r \in ArrRaws, d \in ArrDefaults, at \in ArrayTypes}
    \cup {WithDefault(r, d) : r \in JsonRaws, d \in ObjDefaults}

Behaviours == {"return", "throwError", "promise"}

\* a validator that returns for every key but `key`, where it does `how`
ValidatorFn(key, how) ==
    [t |-> "function",
     f |-> [k \in Range(KeyNames) |-> IF k = key THEN how ELSE "return"]]

\* the validator option for a call with the keys ks: none, or a function
Validators(ks) == {Undef} \cup {ValidatorFn(k, how) : k \in Range(ks), how \in Behaviours}

\* the constructor arguments and the input that give each key ks[n] the
\* configuration sc[n]
OptionsOf(ks, sc, validator, delimiter) ==
    LET withDefault == {n \in DOMAIN ks : sc[n].has}
        withType == {n \in DOMAIN ks : sc[n].at # ""}
        ix(k) == CHOOSE n \in DOMAIN ks : ks[n] = k
    IN  [defaults |-> IF withDefault = {} THEN Undef
                      ELSE Obj(SelectSeq(ks, LAMBDA k : sc[ix(k)].has),
                               [k \in {ks[n] : n \in withDefault} |-> sc[ix(k)].d]),
         arrayTypes |-> [k \in {ks[n] : n \in withType} |-> sc[ix(k)].at],
         validator |-> validator,
         delimiter |-> delimiter]

InputOf(ks, sc) ==
    LET set == {n \in DOMAIN ks : sc[n].raw # Undef}
        ix(k) == CHOOSE n \in DOMAIN ks : ks[n] = k
    IN  Obj(SelectSeq(ks, LAMBDA k : sc[ix(k)].raw # Undef),
            [k \in {ks[n] : n \in set} |-> sc[ix(k)].raw])

\* the state after construction, before the call
Fresh ==
    /\ pc = "start"
    /\ i = 0
    /\ env = <<>>
    /\ parsedValue = Undef
    /\ thrown = NoError
    /\ result = NoResult
    /\ outcome = NoOutcome
    /\ frozen = FALSE
    /\ writes = 0
    /\ log = <<>>
    /\ aliased = {}

\* tinyenv(keys, options) over process.env, 0 to MaxKeys keys
InitPlain ==
    /\ entry = "tinyenv"
    /\ \E n \in 0..MaxKeys :
          /\ keys = SubSeq(KeyNames, 1, n)
          /\ \E sc \in [1..n -> PlainPool], v \in Validators(SubSeq(KeyNames, 1, n)) :
                /\ options = OptionsOf(keys, sc, v, Undef)
                /\ value = InputOf(keys, sc)

\* tinyenv(['A'], options) over process.env, one key of any type
InitRich ==
    /\ entry = "tinyenv"
    /\ keys = <<"A">>
    /\ \E s \in RichPool, d \in Delimiters,
          v \in {Undef, ValidatorFn("A", "return"), ValidatorFn("A", "throwValue")} :
          /\ options = OptionsOf(keys, <<s>>, v, d)
          /\ value = InputOf(keys, <<s>>)

\* schema['~standard'].validate(input) called directly, with an input that
\* may not be an object
InitAdapter ==
    /\ entry = "validate"
    /\ keys = <<"A">>
    /\ \E s \in PlainPool : options = OptionsOf(keys, <<s>>, Undef, Undef)
    /\ value \in {Null, Undef, Str(<<"x">>), Num(1), EmptyObj,
                  Obj1("A", Str(<<"8">>)), Obj1("A", Str(<<" ">>))}

Init == Fresh /\ (InitPlain \/ InitRich \/ InitAdapter)

Spec == Init /\ [][Next]_vars

-----------------------------------------------------------------------------
(* Properties *)

IndexOfKey(k) == CHOOSE n \in DOMAIN keys : keys[n] = k
InputIsObject == TypeOf(value) = "object" /\ value # Null

\* validate has returned an issues list
Issued == pc \in {"validated", "done"} /\ "issues" \in result.fields
Reported == result.issues[1].message

\* the keys whose pass throws, by index
Failing == {n \in DOMAIN keys : ~ProcessKey(keys[n]).ok}
FirstFailing == CHOOSE n \in Failing : \A m \in Failing : n <= m

\* C1: keys are processed in declaration order and the run stops at the
\* first failing key: when one or more keys would fail, the one error
\* reported (in the adapter's issues, and thrown by tinyenv) is that of the
\* earliest failing key, and no step of a later key is ever taken.
C1_FirstFailureWins ==
    (InputIsObject /\ Failing # {}) =>
        /\ \A n \in DOMAIN log : IndexOfKey(log[n].key) <= FirstFailing
        /\ \A n \in DOMAIN log :
              IndexOfKey(log[n].key) = FirstFailing => log[n].op # "store"
        /\ pc # "freeze"
        /\ pc = "catch" => thrown = ProcessKey(keys[FirstFailing]).err
        /\ pc \in {"validated", "done"} =>
              /\ "issues" \in result.fields
              /\ Reported = ProcessKey(keys[FirstFailing]).err.message
        /\ pc = "done" =>
              /\ outcome.t = "threw"
              /\ outcome.error.message = ProcessKey(keys[FirstFailing]).err.message

\* two keys would fail, with different errors, and the call is over
C1_Witness ==
    /\ pc = "done"
    /\ Cardinality(Failing) >= 2
    /\ \E m \in Failing : ProcessKey(keys[m]).err # ProcessKey(keys[FirstFailing]).err
    /\ outcome.t = "threw"

\* C2: the outcome is atomic: validate returns either a value, the record
\* with every declared key, and no issues, or exactly one issue and no
\* value; when a key fails no record is returned and tinyenv throws an
\* error with that issue's message.
C2_AtomicOutcome ==
    /\ pc \in {"validated", "done"} =>
          \/ /\ result.fields = {"value"}
             /\ result.issues = <<>>
             /\ writes = 0 => DOMAIN env = Range(keys)
             /\ Failing = {}
          \/ /\ result.fields = {"issues"}
             /\ Len(result.issues) = 1
             /\ ~HasRecord
             /\ Failing # {} \/ ~InputIsObject
    /\ pc = "done" =>
          IF "issues" \in result.fields
          THEN outcome = [t |-> "threw", error |-> Error(Reported)]
          ELSE outcome.t = "returned"

\* a call with two keys whose second key failed after the first was stored
C2_Witness ==
    /\ pc = "done"
    /\ outcome.t = "threw"
    /\ Len(keys) = 2
    /\ DOMAIN env = {keys[1]}
    /\ Len(result.issues) = 1

-----------------------------------------------------------------------------

\* the last step taken
LastEv == log[Len(log)]
\* the conversion of key k has just thrown
ConvertThrew(k) == pc = "catch" /\ log # <<>> /\ LastEv = Ev("convert", k)
\* the conversion of key k has just returned a value
Converted(k) == pc = "validator" /\ i \in DOMAIN keys /\ k = keys[i]

Unset(k) == RawValue(k) = Undef \/ IsEmpty(RawValue(k))

\* C3 (as claimed): a key with a declared default of a supported type whose
\* raw value is absent, empty or blank converts to its default, whatever
\* the delimiter.
C3_DefaultFillIn ==
    \A n \in DOMAIN keys :
        LET k == keys[n] IN
        (/\ InDefaults(k)
         /\ DefaultValue(k).t \in {"string", "number", "boolean", "array", "object"}
         /\ Unset(k))
        => /\ ~ConvertThrew(k)
           /\ Converted(k) => parsedValue = DefaultValue(k)

\* C4: for each key reached the undefined-default check runs first, then
\* the missing-variable check, then conversion; a key that defaults lists
\* with the value undefined fails with the invalid-default message whatever
\* its raw value, and a key without a default whose raw value is absent or
\* blank fails with the missing-variable message.
C4_CheckOrder ==
    /\ \A n \in DOMAIN log :
          /\ log[n].op = "checkMissing" => n > 1 /\ log[n - 1] = Ev("checkDefault", log[n].key)
          /\ log[n].op = "convert" => n > 1 /\ log[n - 1] = Ev("checkMissing", log[n].key)
    /\ log # <<>> =>
          LET k == LastEv.key IN
          /\ (InDefaults(k) /\ DefaultValue(k) = Undef) =>
                /\ LastEv.op = "checkDefault"
                /\ pc = "checkDefault" \/ Issued \/
                      (pc = "catch" /\ thrown.message =
                          "Invalid default value for key " \o k \o ": undefined is not allowed")
                /\ Issued => Reported =
                      "Invalid default value for key " \o k \o ": undefined is not allowed"
          /\ (~InDefaults(k) /\ Unset(k)) =>
                /\ LastEv.op \in {"checkDefault", "checkMissing"}
                /\ LastEv.op = "checkMissing" =>
                      /\ pc = "catch" => thrown.message = "Missing environment variable: " \o k
                      /\ pc # "catch" => Issued
                      /\ Issued => Reported = "Missing environment variable: " \o k

\* a key with an undefined default and a usable raw value has failed
C4_Witness ==
    /\ Issued
    /\ log # <<>>
    /\ InDefaults(LastEv.key) /\ DefaultValue(LastEv.key) = Undef
    /\ RawValue(LastEv.key) = Str(<<"8">>)
    /\ Reported = "Invalid default value for key " \o LastEv.key \o ": undefined is not allowed"

\* the declared keys whose default is undefined, by index
UndefinedDefaults == {n \in DOMAIN keys : InDefaults(keys[n]) /\ DefaultValue(keys[n]) = Undef}
FirstUndefined == CHOOSE n \in UndefinedDefaults : \A m \in UndefinedDefaults : n <= m

\* C5 (as claimed): when defaults maps a declared key X to undefined, the
\* call fails with the invalid-default message of X before any key is
\* converted and before the validator is called for any key.
C5_FailsBeforeParsing ==
    (InputIsObject /\ UndefinedDefaults # {}) =>
        /\ \A n \in DOMAIN log : log[n].op \notin {"convert", "validator", "store"}
        /\ Issued => Reported = InvalidDefaultError(keys[FirstUndefined]).message

\* C5 (amended): when defaults maps a declared key X to undefined, the call
\* never returns a record, and X and the keys after X are never converted,
\* validated or stored; the keys declared before X are processed first, so
\* the error is the invalid-default message of X exactly when none of them
\* fails, and the error of the earliest of them that fails otherwise.
C5_FailsAtThatKey ==
    (InputIsObject /\ UndefinedDefaults # {}) =>
        LET x == FirstUndefined IN
        /\ \A n \in DOMAIN log :
              /\ IndexOfKey(log[n].key) <= x
              /\ IndexOfKey(log[n].key) = x => log[n].op = "checkDefault"
        /\ pc \in {"validated", "done"} =>
              /\ Issued
              /\ ~HasRecord
              /\ (Reported = "Invalid default value for key " \o keys[x]
                                \o ": undefined is not allowed")
                  <=> (\A m \in 1..(x - 1) : ProcessKey(keys[m]).ok)
              /\ \A m \in 1..(x - 1) :
                    (~ProcessKey(keys[m]).ok /\ \A l \in 1..(m - 1) : ProcessKey(keys[l]).ok)
                    => Reported = ProcessKey(keys[m]).err.message

\* the key before X was converted and stored, then X failed
C5_Witness ==
    /\ pc = "done"
    /\ UndefinedDefaults = {2}
    /\ \E n \in DOMAIN log : log[n] = Ev("store", keys[1])
    /\ outcome.t = "threw"
    /\ outcome.error = InvalidDefaultError(keys[2])

\* C6: the record is frozen only after all keys succeeded, and once the
\* caller has it no write (an assignment to an old or a new key, a delete)
\* changes it.
C6_FrozenRecord ==
    /\ [](frozen => /\ pc \in {"validated", "done"}
                    /\ result.fields = {"value"}
                    /\ DOMAIN env = Range(keys)
                    /\ Failing = {})
    /\ [][HasRecord => env' = env]_vars

\* the caller has attempted writes on a record that holds a key
C6_Witness ==
    /\ HasRecord
    /\ writes = MaxWrites
    /\ "A" \in DOMAIN env

-----------------------------------------------------------------------------

\* key k has a non-array object default and a raw value that is set
ObjectKey(k) == InDefaults(k) /\ DefaultValue(k).t = "object" /\ ~Unset(k)
Document(k) == JsonParse(ToStr(RawValue(k)))

\* C7 (as claimed): when the raw value of a key with a non-array object
\* default is well-formed JSON that fails shape validation, the message
\* reported is exactly the shape failure's message (Missing required
\* property ..., Invalid type for ...).
C7_ShapeMessagesExact ==
    \A n \in DOMAIN keys :
        LET k == keys[n] IN
        (ObjectKey(k) /\ ConvertThrew(k) /\ Document(k).ok) =>
            thrown.message = ValidateObjectShape(Document(k).v, DefaultValue(k), k, <<>>).err.message

\* the shape the claim states: the same typeof and, for a non-null object,
\* every property of the default present with a matching shape
RECURSIVE MinShape(_, _)
MinShape(v, d) ==
    /\ TypeOf(v) = TypeOf(d)
    /\ (TypeOf(v) = "object" /\ v # Null) =>
          \A p \in Range(Props(d)) : HasProp(v, p) /\ MinShape(Get(v, p), Get(d, p))

\* the same, with a property whose default value is undefined optional
RECURSIVE MinDefinedShape(_, _)
MinDefinedShape(v, d) ==
    /\ TypeOf(v) = TypeOf(d)
    /\ (TypeOf(v) = "object" /\ v # Null) =>
          \A p \in Range(Props(d)) :
              /\ HasProp(v, p) \/ Get(d, p) = Undef
              /\ HasProp(v, p) => MinDefinedShape(Get(v, p), Get(d, p))

\* C8 (as claimed): a key with a non-array object default and a well-formed
\* document converts if and only if the parsed value has the typeof of the
\* default and, recursively for non-null objects, every property of the
\* default with a matching typeof; the parsed value is then the result.
C8_MinimumShape ==
    \A n \in DOMAIN keys :
        LET k == keys[n] IN
        (ObjectKey(k) /\ Document(k).ok) =>
            /\ Converted(k) => MinShape(Document(k).v, DefaultValue(k))
                               /\ parsedValue = Document(k).v
            /\ ConvertThrew(k) => ~MinShape(Document(k).v, DefaultValue(k))

\* C8 (amended): ... every property of the default whose default value is
\* not undefined is present, and every property of the default that is
\* present has a matching typeof, recursively; a property whose default
\* value is undefined may be absent.  Properties only in the parsed value
\* never matter, and the parsed value is the result.
C8_MinimumDefinedShape ==
    \A n \in DOMAIN keys :
        LET k == keys[n] IN
        (ObjectKey(k) /\ Document(k).ok) =>
            /\ Converted(k) => MinDefinedShape(Document(k).v, DefaultValue(k))
                               /\ parsedValue = Document(k).v
            /\ ConvertThrew(k) => ~MinDefinedShape(Document(k).v, DefaultValue(k))

\* a nested document with a property the default does not have converted
C8_Witness ==
    /\ Converted("A")
    /\ ObjectKey("A")
    /\ DefaultValue("A") = Obj1("db", Obj2("h", Str(<<>>), "p", Num(0)))
    /\ HasProp(Get(parsedValue, "db"), "q")

-----------------------------------------------------------------------------

\* key k has an array default and a raw value that is set
ArrayKey(k) == InDefaults(k) /\ DefaultValue(k).t = "array" /\ ~Unset(k)

RECURSIVE JoinWith(_, _)
JoinWith(parts, d) ==
    IF Len(parts) = 1 THEN parts[1] ELSE parts[1] \o d \o JoinWith(Tail(parts), d)

Occurs(d, s) == \E n \in 1..(Len(s) - Len(d) + 1) : SubSeq(s, n, n + Len(d) - 1) = d

\* parts is s cut at occurrences of d (into its characters when d is empty)
IsSplit(parts, s, d) ==
    IF s = <<>> THEN parts \in {<<>>, << <<>> >>}
    ELSE /\ JoinWith(parts, d) = s
         /\ \A n \in DOMAIN parts :
               IF d = <<>> THEN Len(parts[n]) = 1 ELSE ~Occurs(d, parts[n])

\* s without its leading and trailing white space
Trimmed(s) ==
    LET inked == {n \in DOMAIN s : s[n] \notin WhiteSpace} IN
    IF inked = {} THEN <<>>
    ELSE SubSeq(s, CHOOSE n \in inked : \A m \in inked : n <= m,
                   CHOOSE n \in inked : \A m \in inked : n >= m)

UpperOf(c) ==
    CASE c = "t" -> "T" [] c = "r" -> "R" [] c = "u" -> "U" [] c = "e" -> "E"
      [] c = "f" -> "F" [] c = "a" -> "A" [] c = "l" -> "L" [] c = "s" -> "S"
      [] c = "y" -> "Y" [] c = "n" -> "N" [] c = "o" -> "O"
      [] OTHER -> c

\* s is word in some letter case
InAnyCase(s, word) ==
    Len(s) = Len(word) /\ \A n \in DOMAIN s : s[n] \in {word[n], UpperOf(word[n])}
SaysTrue(s) == \E w \in {<<"t", "r", "u", "e">>, <<"1">>, <<"y", "e", "s">>} : InAnyCase(s, w)
SaysFalse(s) == \E w \in {<<"f", "a", "l", "s", "e">>, <<"0">>, <<"n", "o">>} : InAnyCase(s, w)

\* the element type the claim states for key k
HintedType(k) ==
    IF k \in DOMAIN options.arrayTypes THEN options.arrayTypes[k]
    ELSE IF DefaultValue(k).a # <<>> THEN TypeOf(DefaultValue(k).a[1])
    ELSE "string"

\* whether element el converts by type, and to what
ElementOk(el, type) ==
    CASE type = "number" -> StringToNumber(el) # NaN
      [] type = "boolean" -> SaysTrue(el) \/ SaysFalse(el)
      [] OTHER -> TRUE
ElementValue(el, type) ==
    CASE type = "number" -> StringToNumber(el)
      [] type = "boolean" -> Bool(SaysTrue(el))
      [] OTHER -> Str(el)

\* C9: for a key with an array default and a set, non-blank raw value the
\* result is the raw string split on the delimiter (default ","), each
\* element trimmed, empty elements dropped, order kept, each element
\* converted by the arrayTypes hint, else by the type of the default's
\* first element, else left a string; a failing element fails the key
\* with a message naming the key, the type and the first such element.
C9_ArrayConversion ==
    \A n \in DOMAIN keys :
        LET k == keys[n]
            d == IF options.delimiter = Undef THEN <<",">> ELSE options.delimiter.s
            parts == Split(RawValue(k).s, d)
            trimmed == [m \in DOMAIN parts |-> Trimmed(parts[m])]
            els == SelectSeq(trimmed, LAMBDA el : el # <<>>)
            type == HintedType(k)
            bad == {m \in DOMAIN els : ~ElementOk(els[m], type)}
        IN  ArrayKey(k) =>
            /\ IsSplit(parts, RawValue(k).s, d)
            /\ Converted(k) =>
                  /\ bad = {}
                  /\ parsedValue = Arr([m \in DOMAIN els |-> ElementValue(els[m], type)])
            /\ ConvertThrew(k) =>
                  /\ bad # {}
                  /\ thrown.message = "Failed to parse " \o k \o " array element as " \o type
                        \o ": " \o Cat(els[CHOOSE m \in bad : \A l \in bad : m <= l])

\* numbers were converted from a raw value with padded and empty elements
C9_Witness ==
    /\ Converted("A")
    /\ ArrayKey("A")
    /\ RawValue("A") = Str(<<"1", ",", " ", ",", "2">>)
    /\ parsedValue = Arr(<<Num(1), Num(2)>>)

\* an element failed that is not the first element
C9_WitnessFailure ==
    /\ ConvertThrew("A")
    /\ ArrayKey("A")
    /\ thrown.message = "Failed to parse A array element as boolean: maybe"

\* key k has a boolean default
BooleanKey(k) == InDefaults(k) /\ DefaultValue(k).t = "boolean"

\* C10: for a key with a boolean default the string form of the selected
\* value, as it is (not trimmed), gives true exactly for true, 1, yes and
\* false exactly for false, 0, no, in any letter case; any other string
\* fails with the boolean message naming the key and the value.
C10_BooleanConversion ==
    \A n \in DOMAIN keys :
        LET k == keys[n]
            str == IF Unset(k)
                   THEN (IF DefaultValue(k).b THEN <<"t", "r", "u", "e">>
                         ELSE <<"f", "a", "l", "s", "e">>)
                   ELSE RawValue(k).s
        IN  BooleanKey(k) =>
            /\ Converted(k) =>
                  /\ parsedValue.t = "boolean"
                  /\ parsedValue.b <=> SaysTrue(str)
                  /\ ~parsedValue.b <=> SaysFalse(str)
            /\ ConvertThrew(k) =>
                  /\ ~SaysTrue(str) /\ ~SaysFalse(str)
                  /\ thrown.message = "Failed to parse " \o k \o " as boolean: " \o Cat(str)
            /\ pc \in {"store", "validated", "done"} =>
                  ("issues" \in result.fields <=> ~(SaysTrue(str) \/ SaysFalse(str)))
                  \/ options.validator # Undef

\* a raw value in mixed case converted to true over a default of false
C10_Witness ==
    /\ Converted("A")
    /\ DefaultValue("A") = Bool(FALSE)
    /\ RawValue("A") = Str(<<"t", "R", "u", "E">>)
    /\ parsedValue = Bool(TRUE)

\* a raw value with a trailing blank failed
C10_WitnessFailure ==
    /\ ConvertThrew("A")
    /\ BooleanKey("A")
    /\ RawValue("A") = Str(<<"y", "e", "s", " ">>)

-----------------------------------------------------------------------------

\* key k has a number default
NumberKey(k) == InDefaults(k) /\ TypeOf(DefaultValue(k)) = "number"

RECURSIVE Pow10(_)
Pow10(n) == IF n = 0 THEN 1 ELSE 10 * Pow10(n - 1)

\* the value of a run of decimal digits, by place
Decimal(s) ==
    LET RECURSIVE Sum(_)
        Sum(n) == IF n > Len(s) THEN 0
                  ELSE DigitValue(s[n]) * Pow10(Len(s) - n) + Sum(n + 1)
    IN  Sum(1)

IsDigits(s) == s # <<>> /\ Range(s) \subseteq DigitSet

\* whether a string is numeric (white space around an optionally signed
\* digit run, or nothing but white space), and its value
Numeric(s) ==
    LET t == Trimmed(s) IN
    \/ t = <<>>
    \/ IsDigits(t)
    \/ Len(t) > 1 /\ t[1] \in {"+", "-"} /\ IsDigits(Tail(t))
NumericValue(s) ==
    LET t == Trimmed(s) IN
    IF t = <<>> THEN 0
    ELSE IF t[1] = "-" THEN -Decimal(Tail(t))
    ELSE IF t[1] = "+" THEN Decimal(Tail(t))
    ELSE Decimal(t)

\* C11: for a key with a number default the result is the numeric value of
\* the selected value, a number and never the string, and the key fails
\* with the number message, naming the key and the value, exactly when
\* that numeric value is not-a-number.
C11_NumberConversion ==
    \A n \in DOMAIN keys :
        LET k == keys[n] IN
        NumberKey(k) =>
            IF Unset(k)
            THEN /\ Converted(k) => parsedValue = DefaultValue(k) /\ DefaultValue(k) # NaN
                 /\ ConvertThrew(k) =>
                       /\ DefaultValue(k) = NaN
                       /\ thrown.message = "Failed to parse " \o k \o " as number: NaN"
            ELSE /\ Converted(k) =>
                       /\ Numeric(RawValue(k).s)
                       /\ parsedValue = Num(NumericValue(RawValue(k).s))
                 /\ ConvertThrew(k) =>
                       /\ ~Numeric(RawValue(k).s)
                       /\ thrown.message = "Failed to parse " \o k \o " as number: "
                                              \o Cat(RawValue(k).s)

\* a padded raw value became a number
C11_Witness ==
    /\ Converted("A")
    /\ NumberKey("A")
    /\ RawValue("A") = Str(<<" ", "7", " ">>)
    /\ parsedValue = Num(7)

\* a raw value that only starts with a digit failed
C11_WitnessFailure ==
    /\ ConvertThrew("A")
    /\ NumberKey("A")
    /\ thrown.message = "Failed to parse A as number: 4x"

-----------------------------------------------------------------------------

\* the validator calls made so far, by their place in the log
Calls == {n \in DOMAIN log : log[n].op = "validator"}
Rejections == {"throwError", "throwValue"}

\* C12: a supplied validator is invoked once per declared key that passed
\* conversion, with the key and its converted value, in declaration order,
\* after the key's conversion and before the value is stored; it is never
\* invoked for a key whose conversion failed nor for a key after the first
\* failure, and when it rejects a key, that key and all later keys are
\* never stored.
C12_ValidatorProtocol ==
    (InputIsObject /\ options.validator # Undef) =>
        /\ \A n \in Calls :
              /\ n > 1 /\ log[n - 1] = Ev("convert", log[n].key)
              /\ ConvertValue(log[n].key).ok
              /\ log[n].arg = ConvertValue(log[n].key).v
              /\ \A m \in Calls : m < n => IndexOfKey(log[m].key) < IndexOfKey(log[n].key)
              /\ log[n].did \in Rejections =>
                    /\ n = Len(log)
                    /\ pc \in {"catch", "validated", "done"}
                    /\ pc # "catch" => "issues" \in result.fields
                    /\ \A m \in DOMAIN keys :
                          m >= IndexOfKey(log[n].key) => keys[m] \notin DOMAIN env
        /\ \A n \in DOMAIN log :
              log[n].op = "store" =>
                  /\ n > 1 /\ log[n - 1].op = "validator" /\ log[n - 1].key = log[n].key
                  /\ env[log[n].key] = log[n - 1].arg
        /\ \A n \in DOMAIN keys :
              LET called == {m \in Calls : log[m].key = keys[n]} IN
              /\ Cardinality(called) <= 1
              /\ ~ConvertValue(keys[n]).ok => called = {}
              /\ (n < i \/ (n = i /\ pc = "store") \/ "value" \in result.fields)
                    => Cardinality(called) = 1
              /\ (\E m \in Failing : m < n) => called = {}

\* the validator accepted the first key and rejected the second
C12_Witness ==
    /\ pc = "done"
    /\ Len(keys) = 2
    /\ Cardinality(Calls) = 2
    /\ LastEv.op = "validator" /\ LastEv.key = keys[2] /\ LastEv.did = "throwError"
    /\ DOMAIN env = {keys[1]}
    /\ outcome.t = "threw"

----------------------------------------------------------------------------
\* the arrays and objects among the values of a record
Objects(rec) == {k \in DOMAIN rec : rec[k].t \in {"array", "object"}}

\* C13: a call has no side effects on its arguments.  No step of a call,
\* successful or failing, changes the input map or the defaults (nested
\* arrays and objects included); no array or object of the returned record
\* is one that defaults holds, so a later change made in place to a value of
\* the record leaves the input map and the defaults as they were
C13_NoSideEffects ==
    /\ [](aliased = {})
    /\ [][value' = value /\ options' = options]_vars

\* a record was returned that took an array from defaults (equal to it,
\* element for element) and the caller has since changed a value in place
C13_Witness ==
    /\ HasRecord
    /\ writes > 0
    /\ \E k \in Objects(env) : Unset(k) /\ env[k] = DefaultValue(k)

\* a call failed whose defaults hold an array or an object
C13_WitnessFailure ==
    /\ Finished
    /\ ~HasRecord
    /\ options.defaults # Undef
    /\ Objects(options.defaults.o) # {}

----------------------------------------------------------------------------
\* a non-null object-typed value
IsObject(v) == TypeOf(v) = "object" /\ v # Null

\* key k has a non-array object default every property of which is an array
\* of scalars, and a well-formed document that has every one of these
\* properties with a non-null object-typed value
NestedArrayKey(k) ==
    /\ ObjectKey(k)
    /\ Document(k).ok
    /\ IsObject(Document(k).v)
    /\ IsObject(DefaultValue(k))
    /\ Props(DefaultValue(k)) # <<>>
    /\ \A p \in Range(Props(DefaultValue(k))) :
          /\ Get(DefaultValue(k), p).t = "array"
          /\ \A e \in Range(Get(DefaultValue(k), p).a) : e # Undef /\ TypeOf(e) # "object"
          /\ HasProp(Document(k).v, p)
          /\ IsObject(Get(Document(k).v, p))

\* C14 (as claimed): an array nested in a validated object is compared by
\* its typeof alone: when the properties of the default are arrays and the
\* document has them with non-null object-typed values, shape validation
\* succeeds whatever the length and the elements, and no error is raised
\* for an index path such as KEY.prop.0.
C14_NestedArraysByTypeOnly ==
    \A n \in DOMAIN keys : NestedArrayKey(keys[n]) => ~ConvertThrew(keys[n])

\* index x of the default array at property p is missing from the document
IndexMissing(k, p, x) == ~HasProp(Get(Document(k).v, p), x)
\* index x is there with a value of another typeof
IndexMismatch(k, p, x) ==
    /\ HasProp(Get(Document(k).v, p), x)
    /\ TypeOf(Get(Get(Document(k).v, p), x)) # TypeOf(Get(Get(DefaultValue(k), p), x))

\* C14 (amended): an array nested in a validated object is compared index
\* by index like any object.  The key converts exactly when the document's
\* value has every index of the default array with a value of the same
\* typeof (indices past the default's length are not compared); otherwise
\* the error names the index path: Missing required property KEY.prop.N, or
\* Invalid type for KEY.prop.N, inside Failed to parse KEY as JSON.
C14_NestedArraysByIndex ==
    \A n \in DOMAIN keys :
        LET k == keys[n]
            d == DefaultValue(k)
            v == Document(k).v
        IN  NestedArrayKey(k) =>
              /\ Converted(k) =>
                    /\ parsedValue = v
                    /\ \A p \in Range(Props(d)) : \A x \in Range(Props(Get(d, p))) :
                          ~IndexMissing(k, p, x) /\ ~IndexMismatch(k, p, x)
              /\ ConvertThrew(k) =>
                    \E p \in Range(Props(d)) : \E x \in Range(Props(Get(d, p))) :
                        \/ /\ IndexMissing(k, p, x)
                           /\ thrown.message = "Failed to parse " \o k
                                 \o " as JSON: Missing required property "
                                 \o k \o "." \o p \o "." \o x
                        \/ /\ IndexMismatch(k, p, x)
                           /\ thrown.message = "Failed to parse " \o k
                                 \o " as JSON: Invalid type for "
                                 \o k \o "." \o p \o "." \o x \o ": expected "
                                 \o TypeOf(Get(Get(d, p), x)) \o ", got "
                                 \o TypeOf(Get(Get(v, p), x))

\* defaults { A: { a: [1] } } and A = {"a":[]}: the conversion throws for
\* the index path A.a.0
C14_Witness ==
    /\ NestedArrayKey("A")
    /\ ConvertThrew("A")
    /\ Get(Document("A").v, "a") = Arr(<<>>)
    /\ thrown.message = "Failed to parse A as JSON: Missing required property A.a.0"

\* an element of another typeof is reported at its index
C14_WitnessMismatch ==
    /\ NestedArrayKey("A")
    /\ ConvertThrew("A")
    /\ thrown.message = "Failed to parse A as JSON: Invalid type for A.a.0: expected number, got string"

\* a longer array, and an object with the property "0", both convert
C14_WitnessLonger ==
    /\ NestedArrayKey("A")
    /\ Converted("A")
    /\ Get(DefaultValue("A"), "a") = Arr(<<Num(1)>>)
    /\ Get(parsedValue, "a") = Arr(<<Num(1), Num(2)>>)

C14_WitnessObject ==
    /\ NestedArrayKey("A")
    /\ Converted("A")
    /\ Get(DefaultValue("A"), "a") = Arr(<<Num(1)>>)
    /\ Get(parsedValue, "a") = Obj1("0", Num(1))

----------------------------------------------------------------------------
\* the calls in which the validator returned a promise
AsyncCalls == {n \in Calls : log[n].did = "promise"}

\* C15 (as claimed): asynchronous validation is rejected.  When the
\* validation path is asynchronous (validate's outcome is a promise, or the
\* supplied validator returns a promise), tinyenv throws Async validation is
\* not supported at once and returns no record: the key is never stored
\* and the asynchronous outcome never counts as a successful validation.
C15_AsyncRejected ==
    entry = "tinyenv" =>
        /\ (IsPromise(result) /\ pc = "done") =>
              /\ outcome.t = "threw"
              /\ outcome.error.message = "Async validation is not supported"
        /\ \A n \in AsyncCalls :
              /\ n = Len(log)
              /\ pc \in {"catch", "validated", "done"}
              /\ log[n].key \notin DOMAIN env
              /\ pc = "done" =>
                    /\ outcome.t = "threw"
                    /\ outcome.error.message = "Async validation is not supported"

\* what the code does with a validator that returns a promise: tinyenv
\* returns the record, with the key of that call in it
C15_AsyncAccepted ==
    /\ entry = "tinyenv"
    /\ pc = "done"
    /\ outcome.t = "returned"
    /\ ~IsPromise(result)
    /\ \E n \in AsyncCalls : log[n].key \in DOMAIN env /\ env[log[n].key] = log[n].arg

====
